---------------------------- MODULE Spec2Model ----------------------------
(***************************************************************************)
(* Model of src/app.py: the study-group bot.                               *)
(*                                                                         *)
(*   LocalState        the mutex-guarded state document (prompt            *)
(*                     descriptors and speaker ledger), saved in full on   *)
(*                     every mutation                                      *)
(*   SheetRepository   the live gateway to the attendance worksheet        *)
(*   NoopSheetRepository  the disabled fallback gateway                    *)
(*   StudyGroupBot     the event handlers and the scheduled jobs           *)
(*                                                                         *)
(* A Python dict is modelled as the sequence of its entries, in insertion  *)
(* order: assigning to an existing key keeps the entry's position, which   *)
(* is what CPython's dict does and what a stable sort over .items() then   *)
(* sees.  A string that the program parses (event_ts, message text) is a   *)
(* sequence of characters.                                                 *)
(***************************************************************************)
EXTENDS Integers, Sequences, FiniteSets, TLC

VARIABLES
    now,              \* the clock, datetime.now(JST): [day, hour]
    state,            \* LocalState.state, the in-memory document
    file,             \* the state file at LocalState.path: <<>> when missing
    repo,             \* StudyGroupBot.repo: "live" or "noop"; None: no bot
    header,           \* first row of the worksheet
    rows,             \* data rows of the worksheet (row 2 onwards)
    user_name_cache,  \* StudyGroupBot.user_name_cache
    last_ts,          \* ts of the newest message of the target channel
    event,            \* the input the last step handled
    calls,            \* outbound calls made by the last step, in order
    threads           \* the jobs and handlers under way, one per worker thread

vars == <<now, state, file, repo, header, rows, user_name_cache, last_ts,
          event, calls, threads>>

-----------------------------------------------------------------------------
(* Bounds *)

\* prompts the bot posts in one run
MaxTs == 2
\* last day of the modelled calendar; day 0 is Monday 2024-06-03
MaxDay == 2
\* last hour of the day the clock stops at; the first is 8
MaxHour == 10

-----------------------------------------------------------------------------
(* Program constants.  The Japanese literals of the source are written in  *)
(* romaji: the attendance words taimen (in person), online, kesseki        *)
(* (absent).                                                               *)

ATTENDANCE_EMOJIS ==
    << [key |-> "white_check_mark", value |-> "taimen"],
       [key |-> "computer", value |-> "online"],
       [key |-> "zzz", value |-> "kesseki"] >>
SPEAKER_EMOJI == "microphone"
\* the four characters te - ma : of the literal, one element each
TOPIC_PREFIX == << "te", "-", "ma", ":" >>
\* the six-character command literal, written as one element
MANUAL_DECLARATION_COMMAND == << "sankasengentoukou" >>
HEADERS == "HEADERS"
LEGACY_HEADERS == "LEGACY_HEADERS"
None == "None"

\* slack_channel_id of the settings, already stripped
target_channel_id == "C_TARGET"

-----------------------------------------------------------------------------
(* Python built-ins *)

Min(a, b) == IF a < b THEN a ELSE b

\* k in d
dict_has(d, k) == \E i \in DOMAIN d : d[i].key = k

dict_index(d, k) == CHOOSE i \in DOMAIN d : d[i].key = k

\* d[k]
dict_get(d, k) == d[dict_index(d, k)].value

\* d[k] = v : an existing key keeps its position, a new key goes last
dict_set(d, k, v) ==
    IF dict_has(d, k)
    THEN [d EXCEPT ![dict_index(d, k)].value = v]
    ELSE Append(d, [key |-> k, value |-> v])

\* d.setdefault(k, {}) as far as d is concerned
dict_setdefault(d, k) ==
    IF dict_has(d, k) THEN d ELSE Append(d, [key |-> k, value |-> <<>>])

\* float(s) of a string of decimal digits
RECURSIVE float(_)
float(s) ==
    IF Len(s) = 0 THEN 0
    ELSE 10 * float(SubSeq(s, 1, Len(s) - 1)) + s[Len(s)]

\* list.sort(key=...) is stable: an element goes after the elements whose
\* key is not greater than its own
RECURSIVE sort_by_requested_at(_)
sort_by_requested_at(active) ==
    IF Len(active) = 0 THEN <<>>
    ELSE LET front == sort_by_requested_at(SubSeq(active, 1, Len(active) - 1))
             x == active[Len(active)]
             n == Cardinality({i \in DOMAIN front :
                                   float(front[i][2]) <= float(x[2])})
         IN  SubSeq(front, 1, n) \o <<x>> \o SubSeq(front, n + 1, Len(front))

\* [f(x) for x in s if p(x)] with p = info.get("active")
RECURSIVE active_items(_)
active_items(day) ==
    IF Len(day) = 0 THEN <<>>
    ELSE LET rest == active_items(SubSeq(day, 1, Len(day) - 1))
             e == day[Len(day)]
         IN  IF e.value.active
             THEN Append(rest, <<e.key, e.value.requested_at>>)
             ELSE rest

-----------------------------------------------------------------------------
(* LocalState *)

EmptyState == [declaration_messages |-> <<>>, speaker_requests |-> <<>>]

\* json.dumps(self.state): the JSON text of the document.  A text is the
\* sequence of the JSON values it spells (none for the empty text); a dict
\* becomes an object whose members keep the dict's order, a str a string,
\* a bool true or false.  Slack's ts and event_ts are strings.
json_dumps(st) ==
    LET JString(x) == [t |-> "string", v |-> x]
        JBool(b) == [t |-> "bool", v |-> b]
        JObject(d, dumps_value(_)) ==
            [t |-> "object",
             v |-> [i \in DOMAIN d |-> [name |-> d[i].key,
                                        value |-> dumps_value(d[i].value)]]]
        descriptor(m) ==
            [t |-> "object",
             v |-> << [name |-> "channel", value |-> JString(m.channel)],
                      [name |-> "ts", value |-> JString(m.ts)] >>]
        request(info) ==
            [t |-> "object",
             v |-> << [name |-> "active", value |-> JBool(info.active)],
                      [name |-> "requested_at",
                       value |-> JString(info.requested_at)] >>]
        day(d) == JObject(d, request)
    IN  << [t |-> "object",
            v |-> << [name |-> "declaration_messages",
                      value |-> JObject(st.declaration_messages, descriptor)],
                     [name |-> "speaker_requests",
                      value |-> JObject(st.speaker_requests, day)] >>] >>

\* the Python value of a JSON value: an object becomes a dict in the order
\* of its members
RECURSIVE json_value(_)
json_value(j) ==
    IF j.t = "object"
    THEN LET member(i) == j.v[i]
         IN  IF /\ Len(j.v) = 2
                /\ member(1).name = "declaration_messages"
                /\ member(2).name = "speaker_requests"
             THEN [declaration_messages |-> json_value(member(1).value),
                   speaker_requests |-> json_value(member(2).value)]
             ELSE IF Len(j.v) = 2 /\ member(1).name = "channel"
                                  /\ member(2).name = "ts"
             THEN [channel |-> json_value(member(1).value),
                   ts |-> json_value(member(2).value)]
             ELSE IF Len(j.v) = 2 /\ member(1).name = "active"
                                  /\ member(2).name = "requested_at"
             THEN [active |-> json_value(member(1).value),
                   requested_at |-> json_value(member(2).value)]
             ELSE [i \in DOMAIN j.v |->
                      [key |-> member(i).name,
                       value |-> json_value(member(i).value)]]
    ELSE j.v

\* json.loads(text): raises on a text that spells no value
json_loads(text) ==
    IF Len(text) # 1
    THEN [raised |-> "JSONDecodeError"]
    ELSE [raised |-> None, value |-> json_value(text[1])]

\* save(): the file (<<>> when the path does not exist, else << text >>)
\* holds the text of the whole document
save(st) == << json_dumps(st) >>

\* LocalState(path): the document loaded, or the exception raised
LocalState_init(f) ==
    IF f = <<>>
    THEN [raised |-> None, state |-> EmptyState]
    ELSE LET loaded == json_loads(f[1])
         IN  IF loaded.raised # None
             THEN [raised |-> loaded.raised]
             ELSE [raised |-> None, state |-> loaded.value]

\* mutant: the descriptor is added next to the one the key already has
set_declaration_message_appends(st, date_key, channel, ts) ==
    [st EXCEPT !.declaration_messages =
        Append(@, [key |-> date_key,
                   value |-> [channel |-> channel, ts |-> ts]])]

\* mutant: a key that has a descriptor keeps it
set_declaration_message_keeps_first(st, date_key, channel, ts) ==
    IF dict_has(st.declaration_messages, date_key) THEN st
    ELSE [st EXCEPT !.declaration_messages =
             dict_set(@, date_key, [channel |-> channel, ts |-> ts])]

set_declaration_message(st, date_key, channel, ts) ==
    [st EXCEPT !.declaration_messages =
        dict_set(@, date_key, [channel |-> channel, ts |-> ts])]

\* Optional[Dict]: <<>> is None, <<msg>> is the descriptor
get_declaration_message(st, date_key) ==
    IF dict_has(st.declaration_messages, date_key)
    THEN << dict_get(st.declaration_messages, date_key) >>
    ELSE <<>>

\* mutant: the channel is not compared
get_date_by_declaration_message_ts_only(st, channel, ts) ==
    LET d == st.declaration_messages
        hits == {i \in DOMAIN d : d[i].value.ts = ts}
    IN  IF hits = {} THEN None
        ELSE d[CHOOSE i \in hits : \A j \in hits : i <= j].key

get_date_by_declaration_message(st, channel, ts) ==
    LET d == st.declaration_messages
        hits == {i \in DOMAIN d : d[i].value.channel = channel
                                    /\ d[i].value.ts = ts}
    IN  IF hits = {} THEN None
        ELSE d[CHOOSE i \in hits : \A j \in hits : i <= j].key

\* mutant: a participant who already has an entry keeps its requested_at
add_speaker_request_keeps_token(st, date_key, user_id, event_ts) ==
    LET reqs == dict_setdefault(st.speaker_requests, date_key)
        day == dict_get(reqs, date_key)
    IN  [st EXCEPT !.speaker_requests =
            dict_set(reqs, date_key,
                     dict_set(day, user_id,
                              IF dict_has(day, user_id)
                              THEN [dict_get(day, user_id)
                                        EXCEPT !.active = TRUE]
                              ELSE [active |-> TRUE,
                                    requested_at |-> event_ts]))]

add_speaker_request(st, date_key, user_id, event_ts) ==
    LET reqs == dict_setdefault(st.speaker_requests, date_key)
        day == dict_get(reqs, date_key)
    IN  [st EXCEPT !.speaker_requests =
            dict_set(reqs, date_key,
                     dict_set(day, user_id,
                              [active |-> TRUE, requested_at |-> event_ts]))]

\* mutant: the entry is left as it is
remove_speaker_request_forgets(st, date_key, user_id) ==
    [st EXCEPT !.speaker_requests = dict_setdefault(@, date_key)]

remove_speaker_request(st, date_key, user_id) ==
    LET reqs == dict_setdefault(st.speaker_requests, date_key)
        day == dict_get(reqs, date_key)
    IN  [st EXCEPT !.speaker_requests =
            IF dict_has(day, user_id)
            THEN dict_set(reqs, date_key,
                          dict_set(day, user_id,
                                   [dict_get(day, user_id)
                                        EXCEPT !.active = FALSE]))
            ELSE reqs]

\* mutant: the active entries are not sorted
get_speakers_unsorted(st, date_key) ==
    LET day == IF dict_has(st.speaker_requests, date_key)
               THEN dict_get(st.speaker_requests, date_key)
               ELSE <<>>
        active == active_items(day)
    IN  [i \in 1..Min(2, Len(active)) |-> active[i][1]]

get_speakers(st, date_key) ==
    LET day == IF dict_has(st.speaker_requests, date_key)
               THEN dict_get(st.speaker_requests, date_key)
               ELSE <<>>
        active == sort_by_requested_at(active_items(day))
    IN  [i \in 1..Min(2, Len(active)) |-> active[i][1]]

-----------------------------------------------------------------------------
(* SheetRepository: the worksheet is its first row (header) and its data   *)
(* rows; data row i is sheet row i + 1.  get_all_records on a sheet whose  *)
(* first row is empty yields no records.                                   *)

Row(date_key, participant, attendance, speaker, topic, user_id) ==
    [date |-> date_key, participant |-> participant,
     attendance |-> attendance, speaker |-> speaker, topic |-> topic,
     user_id |-> user_id]

_ensure_headers(ws) ==
    IF ws.header = "" THEN [ws EXCEPT !.header = HEADERS]
    ELSE IF ws.header = LEGACY_HEADERS THEN [ws EXCEPT !.header = HEADERS]
    ELSE ws

\* the sheet row of the first record of (date_key, user_id); 0 is None
_find_row(ws, date_key, user_id) ==
    LET hits == {i \in DOMAIN ws.rows : ws.rows[i].date = date_key
                                          /\ ws.rows[i].user_id = user_id}
    IN  IF hits = {} THEN 0
        ELSE (CHOOSE i \in hits : \A j \in hits : i <= j) + 1

\* mutant: the row is appended without looking for an existing one
upsert_attendance_appends(ws, date_key, user_id, participant, attendance) ==
    LET ws1 == _ensure_headers(ws)
    IN  [ws1 EXCEPT !.rows =
            Append(@, Row(date_key, participant, attendance, "", <<>>,
                          user_id))]

upsert_attendance(ws, date_key, user_id, participant, attendance) ==
    LET ws1 == _ensure_headers(ws)
        row == _find_row(ws1, date_key, user_id)
    IN  IF row # 0
        THEN [ws1 EXCEPT !.rows[row - 1].participant = participant,
                         !.rows[row - 1].attendance = attendance,
                         !.rows[row - 1].user_id = user_id]
        ELSE [ws1 EXCEPT !.rows =
                 Append(@, Row(date_key, participant, attendance, "", <<>>,
                               user_id))]

\* mutant: the loop stops at the first row of the day
update_speaker_flags_first_row(ws, date_key, speaker_user_ids) ==
    LET hits == {i \in DOMAIN ws.rows : ws.rows[i].date = date_key}
        first == CHOOSE i \in hits : \A j \in hits : i <= j
    IN  IF hits = {} THEN ws
        ELSE [ws EXCEPT !.rows[first].speaker =
                 IF \E k \in DOMAIN speaker_user_ids :
                        speaker_user_ids[k] = ws.rows[first].user_id
                 THEN "o" ELSE ""]

\* mutant: an incremental patch, the flags of the others are left as they are
update_speaker_flags_only_sets(ws, date_key, speaker_user_ids) ==
    [ws EXCEPT !.rows =
        [i \in DOMAIN ws.rows |->
            IF ws.rows[i].date # date_key THEN ws.rows[i]
            ELSE IF \E k \in DOMAIN speaker_user_ids :
                        speaker_user_ids[k] = ws.rows[i].user_id
                 THEN [ws.rows[i] EXCEPT !.speaker = "o"]
                 ELSE ws.rows[i]]]

update_speaker_flags(ws, date_key, speaker_user_ids) ==
    [ws EXCEPT !.rows =
        [i \in DOMAIN ws.rows |->
            IF ws.rows[i].date # date_key THEN ws.rows[i]
            ELSE [ws.rows[i] EXCEPT !.speaker =
                    IF \E k \in DOMAIN speaker_user_ids :
                           speaker_user_ids[k] = ws.rows[i].user_id
                    THEN "o" ELSE ""]]]

update_topic(ws, date_key, user_id, topic) ==
    LET row == _find_row(ws, date_key, user_id)
    IN  IF row # 0 THEN [ws EXCEPT !.rows[row - 1].topic = topic] ELSE ws

-----------------------------------------------------------------------------
(* The gateway the bot holds: SheetRepository or NoopSheetRepository,      *)
(* whose writes only log.                                                  *)

repo_upsert_attendance(r, ws, date_key, user_id, participant, attendance) ==
    IF r = "live"
    THEN upsert_attendance(ws, date_key, user_id, participant, attendance)
    ELSE ws

repo_update_speaker_flags(r, ws, date_key, speaker_user_ids) ==
    IF r = "live" THEN update_speaker_flags(ws, date_key, speaker_user_ids)
    ELSE ws

repo_update_topic(r, ws, date_key, user_id, topic) ==
    IF r = "live" THEN update_topic(ws, date_key, user_id, topic) ELSE ws

-----------------------------------------------------------------------------
(* str methods.  A text is a sequence of characters; " " is the ASCII      *)
(* space and "fw" the full-width space U+3000, both whitespace for strip.  *)

is_space(c) == c \in {" ", "fw"}

\* text.replace(full-width space, " ")
replace_fw(text) == [i \in DOMAIN text |-> IF text[i] = "fw" THEN " " ELSE text[i]]

RECURSIVE lstrip(_)
lstrip(text) ==
    IF Len(text) = 0 THEN text
    ELSE IF is_space(text[1]) THEN lstrip(Tail(text)) ELSE text

RECURSIVE rstrip(_)
rstrip(text) ==
    IF Len(text) = 0 THEN text
    ELSE IF is_space(text[Len(text)])
         THEN rstrip(SubSeq(text, 1, Len(text) - 1)) ELSE text

strip(text) == rstrip(lstrip(text))

startswith(text, prefix) ==
    /\ Len(text) >= Len(prefix)
    /\ SubSeq(text, 1, Len(prefix)) = prefix

-----------------------------------------------------------------------------
(* StudyGroupBot.  A handler is an operator from the world it starts in to *)
(* the world it leaves: w.state, w.file, w.ws (the worksheet),             *)
(* w.user_name_cache, w.last_ts and w.calls change, w.now and w.repo are   *)
(* read.                                                                   *)

\* strftime("%Y/%m/%d") of the clock's day, over the week of the calendar
_today(n) ==
    CASE n.day = 0 -> "2024/06/03"
      [] n.day = 1 -> "2024/06/04"
      [] n.day = 2 -> "2024/06/05"
      [] n.day = 3 -> "2024/06/06"
      [] n.day = 4 -> "2024/06/07"
      [] n.day = 5 -> "2024/06/08"
      [] n.day = 6 -> "2024/06/09"

\* datetime.weekday(): Monday is 0
weekday(n) == n.day % 7

\* the user object users.info returns
users_info(user_id) ==
    CASE user_id = "U1" ->
           [profile |-> [display_name |-> "alice"], real_name |-> "Alice A"]
      [] user_id = "U2" ->
           [profile |-> [display_name |-> ""], real_name |-> "Bob B"]
      [] OTHER ->
           [profile |-> [display_name |-> ""], real_name |-> ""]

\* the name and the world with the cache filled; the cache is only read by
\* key, so it is the set of its entries
_display_name(w, user_id) ==
    IF \E e \in w.user_name_cache : e.key = user_id
    THEN [name |-> (CHOOSE e \in w.user_name_cache : e.key = user_id).value,
          w |-> w]
    ELSE LET profile == users_info(user_id)
             name == IF profile.profile.display_name # ""
                     THEN profile.profile.display_name
                     ELSE IF profile.real_name # "" THEN profile.real_name
                     ELSE user_id
         IN  [name |-> name,
              w |-> [w EXCEPT !.user_name_cache =
                        @ \cup {[key |-> user_id, value |-> name]}]]

post_declaration_message(w) ==
    LET date_key == _today(w.now)
        ts == w.last_ts + 1
        st == set_declaration_message(w.state, date_key, target_channel_id, ts)
    IN  [w EXCEPT !.last_ts = ts,
                  !.calls = Append(@, [op |-> "chat_postMessage",
                                       channel |-> target_channel_id]),
                  !.state = st,
                  !.file = save(st)]

\* mutant: the check for today's descriptor is left out
ensure_daily_declaration_posted_unguarded(w) ==
    IF weekday(w.now) \notin {0, 2, 4} THEN w
    ELSE IF w.now.hour < 9 THEN w
    ELSE post_declaration_message(w)

\* mutant: the check posts in the hour of the cron job only
ensure_daily_declaration_posted_at_nine_only(w) ==
    IF weekday(w.now) \notin {0, 2, 4} THEN w
    ELSE IF w.now.hour # 9 THEN w
    ELSE IF get_declaration_message(w.state, _today(w.now)) # <<>> THEN w
    ELSE post_declaration_message(w)

ensure_daily_declaration_posted(w) ==
    IF weekday(w.now) \notin {0, 2, 4} THEN w
    ELSE IF w.now.hour < 9 THEN w
    ELSE IF get_declaration_message(w.state, _today(w.now)) # <<>> THEN w
    ELSE post_declaration_message(w)

_refresh_speaker_flags(w, date_key) ==
    LET speaker_ids == get_speakers(w.state, date_key)
    IN  [w EXCEPT !.ws = repo_update_speaker_flags(w.repo, @, date_key,
                                                   speaker_ids),
                  !.calls = Append(@, [op |-> "update_speaker_flags",
                                       date_key |-> date_key,
                                       speaker_user_ids |-> speaker_ids])]

_handle_reaction(w, ev, added) ==
    IF ev.item.type # "message" THEN w
    ELSE
    LET date_key == get_date_by_declaration_message(w.state, ev.item.channel,
                                                    ev.item.ts)
    IN  IF date_key = None THEN w
        ELSE
        LET user_id == ev.user
            dn == _display_name(w, user_id)
            reaction == ev.reaction
            w1 == IF dict_has(ATTENDANCE_EMOJIS, reaction) /\ added
                  THEN _refresh_speaker_flags(
                         [dn.w EXCEPT
                            !.ws = repo_upsert_attendance(w.repo, @, date_key,
                                       user_id, dn.name,
                                       dict_get(ATTENDANCE_EMOJIS, reaction)),
                            !.calls = Append(@,
                                       [op |-> "upsert_attendance",
                                        date_key |-> date_key,
                                        user_id |-> user_id,
                                        participant |-> dn.name,
                                        attendance |->
                                          dict_get(ATTENDANCE_EMOJIS, reaction)])],
                         date_key)
                  ELSE dn.w
            st == IF added
                  THEN add_speaker_request(w1.state, date_key, user_id,
                                           ev.event_ts)
                  ELSE remove_speaker_request(w1.state, date_key, user_id)
        IN  IF reaction = SPEAKER_EMOJI
            THEN _refresh_speaker_flags(
                   [w1 EXCEPT !.state = st, !.file = save(st)], date_key)
            ELSE w1

_is_manual_command_channel(w, event_channel) ==
    event_channel # None /\ event_channel = target_channel_id

\* mutant: the command is honored only while today has no descriptor
_handle_manual_command_once_a_day(w, ev) ==
    IF ev.subtype # None THEN w
    ELSE IF ~ _is_manual_command_channel(w, ev.channel) THEN w
    ELSE IF strip(replace_fw(ev.text)) # MANUAL_DECLARATION_COMMAND THEN w
    ELSE IF get_declaration_message(w.state, _today(w.now)) # <<>> THEN w
    ELSE post_declaration_message(w)

_handle_manual_command(w, ev) ==
    IF ev.subtype # None THEN w
    ELSE IF ~ _is_manual_command_channel(w, ev.channel) THEN w
    ELSE IF strip(replace_fw(ev.text)) # MANUAL_DECLARATION_COMMAND THEN w
    ELSE post_declaration_message(w)

\* mutant: the author only needs a request in the ledger, active or not,
\* in the roster or not
_handle_thread_message_any_requester(w, ev) ==
    IF ev.subtype # None THEN w
    ELSE IF ev.thread_ts = 0 THEN w
    ELSE
    LET date_key == get_date_by_declaration_message(w.state, ev.channel,
                                                    ev.thread_ts)
    IN  IF date_key = None THEN w
        ELSE IF ~ startswith(ev.text, TOPIC_PREFIX) THEN w
        ELSE
        LET day == IF dict_has(w.state.speaker_requests, date_key)
                   THEN dict_get(w.state.speaker_requests, date_key)
                   ELSE <<>>
            topic == strip(SubSeq(ev.text, Len(TOPIC_PREFIX) + 1, Len(ev.text)))
        IN  IF ~ dict_has(day, ev.user) THEN w
            ELSE IF topic = <<>> THEN w
            ELSE [w EXCEPT
                    !.ws = repo_update_topic(w.repo, @, date_key, ev.user, topic),
                    !.calls = Append(@, [op |-> "update_topic",
                                         date_key |-> date_key,
                                         user_id |-> ev.user,
                                         topic |-> topic])]

_handle_thread_message(w, ev) ==
    IF ev.subtype # None THEN w
    ELSE IF ev.thread_ts = 0 THEN w
    ELSE
    LET date_key == get_date_by_declaration_message(w.state, ev.channel,
                                                    ev.thread_ts)
    IN  IF date_key = None THEN w
        ELSE IF ~ startswith(ev.text, TOPIC_PREFIX) THEN w
        ELSE
        LET speaker_ids == get_speakers(w.state, date_key)
            topic == strip(SubSeq(ev.text, Len(TOPIC_PREFIX) + 1, Len(ev.text)))
        IN  IF ~ \E k \in DOMAIN speaker_ids : speaker_ids[k] = ev.user THEN w
            ELSE IF topic = <<>> THEN w
            ELSE [w EXCEPT
                    !.ws = repo_update_topic(w.repo, @, date_key, ev.user, topic),
                    !.calls = Append(@, [op |-> "update_topic",
                                         date_key |-> date_key,
                                         user_id |-> ev.user,
                                         topic |-> topic])]

\* the listener of message events (on_message).  It is registered before
\* on_manual_declaration_message and matches every message event, and the
\* dispatcher runs the first listener that matches.
on_message_listener(w, ev) ==
    _handle_thread_message(_handle_manual_command(w, ev), ev)

\* SheetRepository(settings): None, or the exception that leaves it.  store
\* is what the credentials and the spreadsheet do: "ok";
\* "DefaultCredentialsError" (no credentials found), caught and raised again
\* as RuntimeError; "JSONDecodeError" (GOOGLE_SERVICE_ACCOUNT_JSON is not
\* JSON), "RefreshError" (credentials rejected at the first request),
\* "SpreadsheetNotFound" and "APIError" (open_by_key), caught nowhere in it.
SheetRepository_init(store) ==
    CASE store = "ok" -> None
      [] store = "DefaultCredentialsError" -> "RuntimeError"
      [] OTHER -> store

\* StudyGroupBot(settings): the bot's repo and state, or the exception
StudyGroupBot_init(f, store) ==
    LET loaded == LocalState_init(f)
        exc == SheetRepository_init(store)
    IN  IF loaded.raised # None THEN [raised |-> loaded.raised]
        ELSE IF exc = None
             THEN [raised |-> None, state |-> loaded.state, repo |-> "live"]
        ELSE IF exc = "RuntimeError"
             THEN [raised |-> None, state |-> loaded.state, repo |-> "noop"]
        ELSE [raised |-> exc]

\* create_flask_app(): the bot behind /slack/events; repo is None when the
\* route is slack_events_unavailable or slack_events_unavailable_runtime
create_flask_app(settings_ok, f, store) ==
    IF ~ settings_ok
    THEN [repo |-> None, state |-> EmptyState, error_message |-> "RuntimeError"]
    ELSE LET bot == StudyGroupBot_init(f, store)
         IN  IF bot.raised # None
             THEN [repo |-> None, state |-> EmptyState,
                   error_message |-> bot.raised]
             ELSE [repo |-> bot.repo, state |-> bot.state,
                   error_message |-> None]

\* the status of the response to POST /slack/events
slack_events_status(r) == IF r = None THEN 503 ELSE 200

\* bot.handler.handle(request): the listener of the event's type
handle(w, ev) ==
    CASE ev.type = "reaction_added" -> _handle_reaction(w, ev, TRUE)
      [] ev.type = "reaction_removed" -> _handle_reaction(w, ev, FALSE)
      [] ev.type = "message" -> on_message_listener(w, ev)

-----------------------------------------------------------------------------
(* Inputs *)

Users == {"U1", "U2", "U3"}

\* event_ts strings, as digits: "9", "10", "11"
EventTs == { <<9>>, <<1, 0>>, <<1, 1>> }

\* the worker threads: the scheduler's pool and the request threads
ThreadIds == {"t1", "t2"}

\* a thread with nothing under way; the other fields are the locals of the
\* job or handler it runs
Idle ==
    [pc |-> "idle", job |-> None, date_key |-> None, ts |-> 0,
     ev |-> [type |-> None], row |-> 0, speaker_ids |-> <<>>,
     updates |-> <<>>]

-----------------------------------------------------------------------------
(* State machine *)

\* the worksheet named by the settings exists with an empty, a legacy or a
\* current first row, or is created with the current one; without
\* credentials the bot holds the fallback gateway and no worksheet
Init ==
    /\ now = [day |-> 0, hour |-> 8]
    /\ state = EmptyState
    /\ file = <<>>
    /\ \/ repo = "live" /\ header \in {"", LEGACY_HEADERS, HEADERS}
       \/ repo = "noop" /\ header = ""
    /\ rows = <<>>
    /\ user_name_cache = {}
    /\ last_ts = 0
    /\ event = [type |-> "start"]
    /\ calls = <<>>
    /\ threads = [t \in ThreadIds |-> Idle]

\* the world a step starts in
World ==
    [now |-> now, repo |-> repo, state |-> state, file |-> file,
     ws |-> [header |-> header, rows |-> rows],
     user_name_cache |-> user_name_cache, last_ts |-> last_ts,
     calls |-> <<>>]

\* the step ends in world w
Commit(w) ==
    /\ state' = w.state
    /\ file' = w.file
    /\ header' = w.ws.header
    /\ rows' = w.ws.rows
    /\ user_name_cache' = w.user_name_cache
    /\ last_ts' = w.last_ts
    /\ calls' = w.calls
    /\ now' = w.now
    /\ UNCHANGED <<repo, threads>>

\* a step of thread t of a job or handler under way ends in world w with
\* the thread at th
CommitStep(w, t, th) ==
    /\ state' = w.state
    /\ file' = w.file
    /\ header' = w.ws.header
    /\ rows' = w.ws.rows
    /\ user_name_cache' = w.user_name_cache
    /\ last_ts' = w.last_ts
    /\ calls' = w.calls
    /\ now' = w.now
    /\ threads' = [threads EXCEPT ![t] = th]
    /\ UNCHANGED repo

-----------------------------------------------------------------------------
(* SpecLedger: LocalState on its own, under any sequence of                *)
(* add_speaker_request and remove_speaker_request calls for one            *)
(* occurrence.  The call recorded in event carries, as previous, the       *)
(* entry the call found: <<>> when the participant had none.               *)

LedgerKeys == { _today([day |-> 0, hour |-> 8]) }

\* the ledger of one occurrence: state["speaker_requests"].get(date_key, {})
Day(st, date_key) ==
    IF dict_has(st.speaker_requests, date_key)
    THEN dict_get(st.speaker_requests, date_key)
    ELSE <<>>

Previous(st, date_key, user_id) ==
    IF dict_has(Day(st, date_key), user_id)
    THEN << dict_get(Day(st, date_key), user_id) >>
    ELSE <<>>

call_add_speaker_request ==
    \E date_key \in LedgerKeys, user_id \in Users, event_ts \in EventTs :
        LET st == add_speaker_request(state, date_key, user_id, event_ts)
        IN  /\ event' = [type |-> "add_speaker_request",
                         date_key |-> date_key, user_id |-> user_id,
                         event_ts |-> event_ts,
                         previous |-> Previous(state, date_key, user_id)]
            /\ Commit([World EXCEPT !.state = st, !.file = save(st)])

call_remove_speaker_request ==
    \E date_key \in LedgerKeys, user_id \in Users :
        LET st == remove_speaker_request(state, date_key, user_id)
        IN  /\ event' = [type |-> "remove_speaker_request",
                         date_key |-> date_key, user_id |-> user_id,
                         previous |-> Previous(state, date_key, user_id)]
            /\ Commit([World EXCEPT !.state = st, !.file = save(st)])

InitLedger == Init /\ repo = "noop"

NextLedger == call_add_speaker_request \/ call_remove_speaker_request

SpecLedger == InitLedger /\ [][NextLedger]_vars

-----------------------------------------------------------------------------
(* SpecSheet: SheetRepository on its own, under any sequence of gateway    *)
(* calls executed one after another on the worksheet.                      *)

SheetKeys == { _today([day |-> 0, hour |-> 8]), _today([day |-> 1, hour |-> 8]) }

SheetUsers == {"U1", "U2"}

\* two of the three attendance words
SheetStatuses == {ATTENDANCE_EMOJIS[1].value, ATTENDANCE_EMOJIS[3].value}

Worksheet == [header |-> header, rows |-> rows]

call_upsert_attendance ==
    \E date_key \in SheetKeys, user_id \in SheetUsers, attendance \in SheetStatuses :
        LET participant == _display_name(World, user_id).name
        IN  /\ event' = [type |-> "upsert_attendance", date_key |-> date_key,
                         user_id |-> user_id, participant |-> participant,
                         attendance |-> attendance]
            /\ Commit([World EXCEPT !.ws =
                          upsert_attendance(Worksheet, date_key, user_id,
                                            participant, attendance)])

call_update_speaker_flags ==
    \E date_key \in SheetKeys, speaker_user_ids \in {<<>>, <<"U2", "U1">>} :
        /\ event' = [type |-> "update_speaker_flags", date_key |-> date_key,
                     speaker_user_ids |-> speaker_user_ids]
        /\ Commit([World EXCEPT !.ws =
                      update_speaker_flags(Worksheet, date_key,
                                           speaker_user_ids)])

call_update_topic ==
    \E date_key \in SheetKeys, user_id \in {"U1"} :
        /\ event' = [type |-> "update_topic", date_key |-> date_key,
                     user_id |-> user_id, topic |-> <<"a">>]
        /\ Commit([World EXCEPT !.ws =
                      update_topic(Worksheet, date_key, user_id, <<"a">>)])

InitSheet == Init /\ repo = "live"

NextSheet ==
    call_upsert_attendance \/ call_update_speaker_flags \/ call_update_topic

SpecSheet == InitSheet /\ [][NextSheet]_vars

-----------------------------------------------------------------------------
(* Spec: the event handlers of StudyGroupBot, one inbound event at a time, *)
(* every outbound call succeeding, on one day (the clock stands still, so  *)
(* every prompt is posted by the manual command).                          *)

Reaction(type, user, reaction, channel, ts, event_ts) ==
    [type |-> type, user |-> user, reaction |-> reaction,
     item |-> [type |-> "message", channel |-> channel, ts |-> ts],
     event_ts |-> event_ts]

Message(subtype, channel, user, text, thread_ts) ==
    [type |-> "message", subtype |-> subtype, channel |-> channel,
     user |-> user, text |-> text, thread_ts |-> thread_ts]

\* The events the specification feeds the handlers.  Reactions and replies
\* aim at the newest message of the channel (ts = last_ts: the newest
\* prompt, or no message at all before the first), one reaction and one
\* reply at the message before it (a replaced prompt) and one reaction in
\* another channel.  U1 asks to speak at 9 or at 11, U2 and U3 at 10; U1
\* and U2 declare attendance; U1 and U3 submit topics; any of them
\* withdraws; U2 sends the manual command.
AddedEvents ==
    {Reaction("reaction_added", "U1", SPEAKER_EMOJI, target_channel_id,
              last_ts, t) : t \in {<<9>>, <<1, 1>>}}
    \cup {Reaction("reaction_added", u, SPEAKER_EMOJI, target_channel_id,
                   last_ts, <<1, 0>>) : u \in {"U2", "U3"}}
    \cup {Reaction("reaction_added", u, "white_check_mark", target_channel_id,
                   last_ts, <<9>>) : u \in {"U1", "U2"}}
    \cup {Reaction("reaction_added", "U1", "zzz", target_channel_id, last_ts,
                   <<9>>),
          Reaction("reaction_added", "U3", SPEAKER_EMOJI, target_channel_id,
                   last_ts - 1, <<9>>),
          Reaction("reaction_added", "U1", SPEAKER_EMOJI, "C_OTHER", last_ts,
                   <<9>>)}

RemovedEvents ==
    {Reaction("reaction_removed", u, SPEAKER_EMOJI, target_channel_id,
              last_ts, <<1, 1>>) : u \in Users}

MessageEvents ==
    {Message(None, target_channel_id, "U1", text, last_ts) :
         text \in {TOPIC_PREFIX \o <<"a">>, TOPIC_PREFIX \o <<" ", "b", "fw">>}}
    \cup {Message(None, target_channel_id, "U3", TOPIC_PREFIX \o <<"a">>,
                  last_ts),
          Message(None, target_channel_id, "U1", TOPIC_PREFIX \o <<"a">>,
                  last_ts - 1),
          Message(None, target_channel_id, "U2", MANUAL_DECLARATION_COMMAND, 0),
          Message(None, "C_OTHER", "U2", MANUAL_DECLARATION_COMMAND, 0)}

on_reaction_added ==
    \E ev \in AddedEvents :
        /\ event' = ev
        /\ Commit(_handle_reaction(World, ev, TRUE))

on_reaction_removed ==
    \E ev \in RemovedEvents :
        /\ event' = ev
        /\ Commit(_handle_reaction(World, ev, FALSE))

on_message ==
    \E ev \in MessageEvents :
        LET w == on_message_listener(World, ev)
        IN  /\ w.last_ts <= MaxTs
            /\ event' = ev
            /\ Commit(w)

\* the bot starts with the live gateway on a worksheet with the current
\* header, or with the fallback gateway
InitBot == Init /\ (repo = "live" => header = HEADERS)

Next == on_reaction_added \/ on_reaction_removed \/ on_message

Spec == InitBot /\ [][Next]_vars

-----------------------------------------------------------------------------
(* SpecSched: the clock and the jobs of _register_jobs that post the       *)
(* prompt, with the manual command.  The clock goes from 08:00 on Monday   *)
(* (day 0) by the hour; the cron job runs at 09:00 of a meeting day when   *)
(* the scheduler is up, and a plain clock_tick over 09:00 is a run it      *)
(* missed.  The interval job may run at any time.                          *)

clock_tick ==
    /\ \/ /\ now.hour < MaxHour
          /\ now' = [now EXCEPT !.hour = @ + 1]
       \/ /\ now.hour = MaxHour
          /\ now.day < MaxDay
          /\ now' = [day |-> now.day + 1, hour |-> 8]
    /\ event' = [type |-> "tick"]
    /\ calls' = <<>>
    /\ UNCHANGED <<state, file, repo, header, rows, user_name_cache, last_ts,
                   threads>>

\* add_job(self.post_declaration_message, "cron", "mon,wed,fri", 9:00)
cron_post_declaration_message ==
    /\ weekday(now) \in {0, 2, 4}
    /\ now.hour = 8
    /\ LET w == post_declaration_message([World EXCEPT !.now.hour = 9])
       IN  /\ w.last_ts <= MaxTs
           /\ event' = [type |-> "cron"]
           /\ Commit(w)

\* add_job(self.ensure_daily_declaration_posted, "interval", minutes=5)
interval_ensure_daily_declaration_posted ==
    LET w == ensure_daily_declaration_posted(World)
    IN  /\ w.last_ts <= MaxTs
        /\ event' = [type |-> "ensure"]
        /\ Commit(w)

\* the manual command, sent in the target channel or elsewhere
manual_command ==
    \E c \in {target_channel_id, "C_OTHER"} :
        LET ev == [type |-> "message", subtype |-> None, channel |-> c,
                   user |-> "U2", text |-> MANUAL_DECLARATION_COMMAND,
                   thread_ts |-> 0]
            w == on_message_listener(World, ev)
        IN  /\ w.last_ts <= MaxTs
            /\ event' = ev
            /\ Commit(w)

NextSched ==
    \/ clock_tick
    \/ cron_post_declaration_message
    \/ interval_ensure_daily_declaration_posted
    \/ manual_command

SpecSched == InitBot /\ [][NextSched]_vars

-----------------------------------------------------------------------------
(* C7: whenever a prompt descriptor is registered for today's occurrence   *)
(* key, ensure_daily_declaration_posted changes nothing and calls nothing  *)
(* (no chat_postMessage, no descriptor change), in every reachable state   *)
(* (so however many times it has run) and at whatever hour of the day it   *)
(* runs.                                                                   *)
C7_EnsureIdleWhenRegistered ==
    (\E i \in DOMAIN state.declaration_messages :
         state.declaration_messages[i].key = _today(now))
    => \A h \in 0..23 :
           LET w == [World EXCEPT !.now.hour = h]
           IN  ensure_daily_declaration_posted(w) = w

\* the interval job has just run, on a meeting day after 09:00 with today's
\* prompt registered, and has made no call
C7_Witness ==
    /\ event.type = "ensure"
    /\ weekday(now) \in {0, 2, 4}
    /\ now.hour >= 9
    /\ \E i \in DOMAIN state.declaration_messages :
           state.declaration_messages[i].key = _today(now)
    /\ calls = <<>>

-----------------------------------------------------------------------------
(* SpecBoot: the process is started, serves requests and is started again, *)
(* with whatever the environment and the state file hold at that time.     *)
(* repo = None is a process without a bot (the unavailable routes).  The   *)
(* state file is emptied by a write_text that is cut short after it has    *)
(* truncated the file, or from outside; it is removed from outside.        *)

StoreConditions ==
    {"ok", "DefaultCredentialsError", "JSONDecodeError", "RefreshError",
     "SpreadsheetNotFound"}

BootEvents ==
    {Message(None, target_channel_id, "U2", MANUAL_DECLARATION_COMMAND, 0),
     Reaction("reaction_added", "U1", SPEAKER_EMOJI, target_channel_id,
              last_ts, <<9>>),
     Reaction("reaction_removed", "U1", SPEAKER_EMOJI, target_channel_id,
              last_ts, <<9>>),
     Reaction("reaction_added", "U2", SPEAKER_EMOJI, target_channel_id,
              last_ts, <<1, 0>>)}

start_process ==
    \E settings_ok \in BOOLEAN, store \in StoreConditions :
        LET app == create_flask_app(settings_ok, file, store)
        IN  /\ event' = [type |-> "create_flask_app",
                         settings_ok |-> settings_ok, store |-> store,
                         error_message |-> app.error_message]
            /\ repo' = app.repo
            /\ state' = app.state
            /\ user_name_cache' = {}
            /\ calls' = <<>>
            /\ UNCHANGED <<now, file, header, rows, last_ts, threads>>

slack_events ==
    \E ev \in BootEvents :
        /\ event' = [type |-> "slack_events", body |-> ev,
                     status |-> slack_events_status(repo)]
        /\ IF repo = None
           THEN /\ calls' = <<>>
                /\ UNCHANGED <<now, state, file, repo, header, rows,
                               user_name_cache, last_ts, threads>>
           ELSE LET w == handle(World, ev)
                IN  /\ w.last_ts <= MaxTs
                    /\ Commit(w)

truncate_state_file ==
    /\ file # << <<>> >>
    /\ file' = << <<>> >>
    /\ event' = [type |-> "truncate"]
    /\ calls' = <<>>
    /\ UNCHANGED <<now, state, repo, header, rows, user_name_cache, last_ts,
                   threads>>

unlink_state_file ==
    /\ file # <<>>
    /\ file' = <<>>
    /\ event' = [type |-> "unlink"]
    /\ calls' = <<>>
    /\ UNCHANGED <<now, state, repo, header, rows, user_name_cache, last_ts,
                   threads>>

NextBoot ==
    \/ start_process
    \/ slack_events
    \/ truncate_state_file
    \/ unlink_state_file

SpecBoot == InitBot /\ [][NextBoot]_vars

-----------------------------------------------------------------------------
(* SpecRace: the two jobs that post the prompt, run by the scheduler's     *)
(* thread pool, a step at a time.  post_declaration_message is three       *)
(* steps: the date key is taken, chat_postMessage is sent (the channel     *)
(* gives the message its ts), set_declaration_message registers it.        *)
(* ensure_daily_declaration_posted reads the descriptor (under the lock)   *)
(* and then, if there is none, goes through the same three steps.  The     *)
(* scheduler runs one instance of a job at a time (max_instances of        *)
(* add_job is left at 1) and different jobs side by side.                  *)

Running(job) == \E t \in ThreadIds : threads[t].job = job /\ threads[t].pc # "idle"

\* 09:00 of a meeting day: the cron job is submitted to a free thread
cron_job_submitted ==
    \E t \in ThreadIds :
        /\ threads[t].pc = "idle"
        /\ ~ Running("post_declaration_message")
        /\ weekday(now) \in {0, 2, 4}
        /\ now.hour = 8
        /\ LET w == [World EXCEPT !.now.hour = 9]
           IN  /\ event' = [type |-> "cron", thread |-> t]
               /\ CommitStep(w, t, [Idle EXCEPT !.pc = "send",
                                        !.job = "post_declaration_message",
                                        !.date_key = _today(w.now)])

\* the interval job is submitted to a free thread and makes its checks
ensure_job_submitted ==
    \E t \in ThreadIds :
        /\ threads[t].pc = "idle"
        /\ ~ Running("ensure_daily_declaration_posted")
        /\ event' = [type |-> "ensure", thread |-> t]
        /\ CommitStep(World, t,
              IF \/ weekday(now) \notin {0, 2, 4}
                 \/ now.hour < 9
                 \/ get_declaration_message(state, _today(now)) # <<>>
              THEN [Idle EXCEPT !.job = "ensure_daily_declaration_posted"]
              ELSE [Idle EXCEPT !.pc = "send",
                                !.job = "ensure_daily_declaration_posted",
                                !.date_key = _today(now)])

\* resp = self.app.client.chat_postMessage(...)
chat_postMessage_sent ==
    \E t \in ThreadIds :
        /\ threads[t].pc = "send"
        /\ last_ts < MaxTs
        /\ event' = [type |-> "send", thread |-> t]
        /\ CommitStep([World EXCEPT !.last_ts = last_ts + 1,
                                    !.calls = << [op |-> "chat_postMessage",
                                                  channel |-> target_channel_id] >>],
                      t, [threads[t] EXCEPT !.pc = "register",
                                            !.ts = last_ts + 1])

\* self.state.set_declaration_message(date_key, channel, resp["ts"])
descriptor_registered ==
    \E t \in ThreadIds :
        /\ threads[t].pc = "register"
        /\ event' = [type |-> "register", thread |-> t]
        /\ LET st == set_declaration_message(state, threads[t].date_key,
                                             target_channel_id, threads[t].ts)
           IN  CommitStep([World EXCEPT !.state = st, !.file = save(st)],
                          t, [threads[t] EXCEPT !.pc = "idle"])

NextRace ==
    \/ clock_tick
    \/ cron_job_submitted
    \/ ensure_job_submitted
    \/ chat_postMessage_sent
    \/ descriptor_registered

SpecRace == InitBot /\ [][NextRace]_vars

-----------------------------------------------------------------------------
(* SpecConc: reaction handlers on the live gateway, run by worker threads  *)
(* a step at a time.  LocalState's methods are atomic (self.lock); every   *)
(* call to the worksheet is a step of its own, and SheetRepository takes   *)
(* no lock.  It starts after the first prompt of the day has been posted.  *)

MaxRows == 2

InitConc ==
    LET st == set_declaration_message(EmptyState,
                  _today([day |-> 0, hour |-> 9]), target_channel_id, 1)
    IN  /\ now = [day |-> 0, hour |-> 9]
        /\ state = st
        /\ file = save(st)
        /\ repo = "live"
        /\ header = HEADERS
        /\ rows = <<>>
        /\ user_name_cache = {}
        /\ last_ts = 1
        /\ event = [type |-> "start"]
        /\ calls = <<>>
        /\ threads = [t \in ThreadIds |-> Idle]

ConcEvents ==
    {Reaction("reaction_added", "U1", "white_check_mark", target_channel_id,
              1, <<9>>),
     Reaction("reaction_added", "U1", "computer", target_channel_id, 1, <<9>>),
     Reaction("reaction_added", "U1", SPEAKER_EMOJI, target_channel_id, 1,
              <<9>>),
     Reaction("reaction_removed", "U1", SPEAKER_EMOJI, target_channel_id, 1,
              <<9>>),
     Reaction("reaction_added", "U2", "zzz", target_channel_id, 1, <<1, 0>>)}

\* handlers that will still append a row unless they find one
Appending ==
    {t \in ThreadIds : threads[t].pc \in {"find_row", "write_row"}}

\* _handle_reaction up to the first call on the worksheet or the ledger
reaction_submitted(t) ==
    \E ev \in ConcEvents :
        LET date_key == get_date_by_declaration_message(state, ev.item.channel,
                                                        ev.item.ts)
            dn == _display_name(World, ev.user)
            attendance == /\ dict_has(ATTENDANCE_EMOJIS, ev.reaction)
                          /\ ev.type = "reaction_added"
        IN  /\ threads[t].pc = "idle"
            /\ ev.item.type = "message"
            /\ date_key # None
            /\ attendance => Len(rows) + Cardinality(Appending) < MaxRows
            /\ event' = [type |-> "submitted", thread |-> t]
            /\ CommitStep(dn.w, t,
                  [Idle EXCEPT !.job = "_handle_reaction", !.ev = ev,
                               !.date_key = date_key,
                               !.pc = IF attendance THEN "find_row"
                                      ELSE "toggle"])

\* upsert_attendance: _ensure_headers() and row = self._find_row(...)
reaction_find_row(t) ==
    /\ threads[t].pc = "find_row"
    /\ event' = [type |-> "find_row", thread |-> t]
    /\ LET ws == _ensure_headers(Worksheet)
       IN  CommitStep([World EXCEPT !.ws = ws], t,
              [threads[t] EXCEPT !.pc = "write_row",
                                 !.row = _find_row(ws, threads[t].date_key,
                                                   threads[t].ev.user)])

\* upsert_attendance: self.ws.update(...) of the row found, or append_row
reaction_write_row(t) ==
    /\ threads[t].pc = "write_row"
    /\ event' = [type |-> "write_row", thread |-> t]
    /\ LET th == threads[t]
           row == th.row
           participant == _display_name(World, th.ev.user).name
           attendance == dict_get(ATTENDANCE_EMOJIS, th.ev.reaction)
           ws == IF row # 0
                 THEN [Worksheet EXCEPT
                          !.rows[row - 1].participant = participant,
                          !.rows[row - 1].attendance = attendance,
                          !.rows[row - 1].user_id = th.ev.user]
                 ELSE [Worksheet EXCEPT !.rows =
                          Append(@, Row(th.date_key, participant, attendance,
                                        "", <<>>, th.ev.user))]
       IN  CommitStep([World EXCEPT !.ws = ws,
                          !.calls = << [op |-> "upsert_attendance",
                                        date_key |-> th.date_key,
                                        user_id |-> th.ev.user,
                                        participant |-> participant,
                                        attendance |-> attendance] >>],
                      t, [th EXCEPT !.pc = "get_speakers"])

\* add_speaker_request or remove_speaker_request, saved
reaction_toggle(t) ==
    /\ threads[t].pc = "toggle"
    /\ event' = [type |-> "toggle", thread |-> t]
    /\ LET th == threads[t]
           st == IF th.ev.type = "reaction_added"
                 THEN add_speaker_request(state, th.date_key, th.ev.user,
                                          th.ev.event_ts)
                 ELSE remove_speaker_request(state, th.date_key, th.ev.user)
       IN  CommitStep([World EXCEPT !.state = st, !.file = save(st)], t,
                      [th EXCEPT !.pc = "get_speakers"])

\* _refresh_speaker_flags: speaker_ids = self.state.get_speakers(date_key)
reaction_get_speakers(t) ==
    /\ threads[t].pc = "get_speakers"
    /\ event' = [type |-> "get_speakers", thread |-> t]
    /\ CommitStep(World, t,
          [threads[t] EXCEPT !.pc = "read_records",
                             !.speaker_ids =
                                 get_speakers(state, threads[t].date_key)])

\* update_speaker_flags: records = get_all_records(); the updates list
flags_read_records(t) ==
    /\ threads[t].pc = "read_records"
    /\ event' = [type |-> "read_records", thread |-> t]
    /\ LET th == threads[t]
           flagged == update_speaker_flags(Worksheet, th.date_key,
                                           th.speaker_ids)
           idxs == {i \in DOMAIN rows : rows[i].date = th.date_key}
           RECURSIVE ascending(_)
           ascending(S) ==
               IF S = {} THEN <<>>
               ELSE LET i == CHOOSE x \in S : \A y \in S : x <= y
                    IN  << [idx |-> i + 1, value |-> flagged.rows[i].speaker] >>
                            \o ascending(S \ {i})
           updates == ascending(idxs)
       IN  CommitStep([World EXCEPT
                          !.calls = << [op |-> "update_speaker_flags",
                                        date_key |-> th.date_key,
                                        speaker_user_ids |-> th.speaker_ids] >>],
                      t, IF updates = <<>> THEN Idle
                         ELSE [th EXCEPT !.updates = updates,
                                         !.pc = "write_flags"])

\* update_speaker_flags: self.ws.update(f"D{idx}", [[value]]), one cell
flags_write_cell(t) ==
    /\ threads[t].pc = "write_flags"
    /\ event' = [type |-> "write_flags", thread |-> t]
    /\ LET th == threads[t]
           u == Head(th.updates)
       IN  CommitStep([World EXCEPT !.ws.rows[u.idx - 1].speaker = u.value],
                      t, IF Tail(th.updates) = <<>> THEN Idle
                         ELSE [th EXCEPT !.updates = Tail(@)])

NextConc ==
    \E t \in ThreadIds :
        \/ reaction_submitted(t)
        \/ reaction_find_row(t)
        \/ reaction_write_row(t)
        \/ reaction_toggle(t)
        \/ reaction_get_speakers(t)
        \/ flags_read_records(t)
        \/ flags_write_cell(t)

SpecConc == InitConc /\ [][NextConc]_vars

-----------------------------------------------------------------------------
(* SpecFail: the same handlers, one at a time, on a gateway whose calls    *)
(* may raise.  The exception leaves _handle_reaction (nothing in it        *)
(* catches) and the listener ends; the thread keeps the event it was       *)
(* handling until it is given the next one.                                *)

\* mutant: the handler undoes the toggle when a call raises
gateway_call_fails_rolls_back(t) ==
    /\ threads[t].pc \in {"find_row", "write_row", "read_records",
                          "write_flags"}
    /\ event' = [type |-> "fails", thread |-> t]
    /\ LET st == remove_speaker_request(state, threads[t].date_key,
                                        threads[t].ev.user)
       IN  CommitStep([World EXCEPT !.state = st, !.file = save(st)], t,
                      [Idle EXCEPT !.job = "failed", !.ev = threads[t].ev])

\* a call on the worksheet raises (get_all_records, update, append_row)
gateway_call_fails(t) ==
    /\ threads[t].pc \in {"find_row", "write_row", "read_records",
                          "write_flags"}
    /\ event' = [type |-> "fails", thread |-> t]
    /\ CommitStep(World, t,
                  [Idle EXCEPT !.job = "failed", !.ev = threads[t].ev])

NextFail ==
    \/ reaction_submitted("t1")
    \/ reaction_find_row("t1")
    \/ reaction_write_row("t1")
    \/ reaction_toggle("t1")
    \/ reaction_get_speakers("t1")
    \/ flags_read_records("t1")
    \/ flags_write_cell("t1")
    \/ gateway_call_fails("t1")

SpecFail == InitConc /\ [][NextFail]_vars

-----------------------------------------------------------------------------
(* SpecHeal: the clock, the cron job and the interval job, with sends that *)
(* may fail.  A run of a job is one step.  The interval job is scheduled   *)
(* every five minutes, so a run of it whose send succeeds is weakly fair;  *)
(* and a meeting day does not end before a send has succeeded.             *)

NoDescriptorToday == get_declaration_message(state, _today(now)) = <<>>

\* chat_postMessage raises in post_declaration_message: the job ends with
\* the attempt made and nothing registered
send_fails ==
    /\ event' = [type |-> "send_fails"]
    /\ calls' = << [op |-> "chat_postMessage", channel |-> target_channel_id] >>
    /\ UNCHANGED <<state, file, repo, header, rows, user_name_cache, last_ts,
                   threads>>

\* the cron job runs at 09:00 and its send fails
cron_send_fails ==
    /\ weekday(now) \in {0, 2, 4}
    /\ now.hour = 8
    /\ now' = [now EXCEPT !.hour = 9]
    /\ send_fails

\* the interval job runs, gets as far as the send, and the send fails
ensure_send_fails ==
    /\ ensure_daily_declaration_posted(World) # World
    /\ now' = now
    /\ send_fails

\* the clock goes on, a meeting day ending only with its prompt registered
clock_tick_registered ==
    /\ clock_tick
    /\ (now'.day # now.day /\ weekday(now) \in {0, 2, 4}) => ~ NoDescriptorToday

NextHeal ==
    \/ clock_tick_registered
    \/ cron_post_declaration_message
    \/ cron_send_fails
    \/ interval_ensure_daily_declaration_posted
    \/ ensure_send_fails

SpecHeal ==
    /\ Init
    /\ [][NextHeal]_vars
    /\ WF_vars(interval_ensure_daily_declaration_posted)

-----------------------------------------------------------------------------
(* Every event a handler may be given, for the properties that hold of     *)
(* any event in any reachable state.                                       *)

Glyphs == {"white_check_mark", "computer", "zzz", SPEAKER_EMOJI, "thumbsup"}

Channels == {target_channel_id, "C_OTHER"}

AllReactions ==
    {Reaction("reaction", u, g, c, ts, <<1, 1>>) :
         u \in Users, g \in Glyphs, c \in Channels, ts \in 0..MaxTs}
    \cup {[Reaction("reaction", u, SPEAKER_EMOJI, c, ts, <<1, 1>>)
               EXCEPT !.item.type = "file"] :
              u \in Users, c \in Channels, ts \in 0..MaxTs}

Texts ==
    { <<>>,
      TOPIC_PREFIX,
      TOPIC_PREFIX \o <<"a">>,
      TOPIC_PREFIX \o <<"fw", "b", " ">>,
      TOPIC_PREFIX \o <<" ", "fw">>,
      <<" ">> \o TOPIC_PREFIX \o <<"a">>,
      <<"a">>,
      MANUAL_DECLARATION_COMMAND,
      <<"fw">> \o MANUAL_DECLARATION_COMMAND \o <<" ">>,
      MANUAL_DECLARATION_COMMAND \o <<"a">> }

AllMessages ==
    {Message(st, c, u, text, ts) :
         st \in {None, "bot_message"}, c \in Channels, u \in Users,
         text \in Texts, ts \in 0..MaxTs}

-----------------------------------------------------------------------------
(* Reading a roster *)

ActiveUsers(st, date_key) ==
    {u \in Users : /\ dict_has(Day(st, date_key), u)
                   /\ dict_get(Day(st, date_key), u).active}

Token(st, date_key, u) == float(dict_get(Day(st, date_key), u).requested_at)

InRoster(r, u) == \E i \in DOMAIN r : r[i] = u

Pos(r, u) == CHOOSE i \in DOMAIN r : r[i] = u

-----------------------------------------------------------------------------
(* C1: for every occurrence and every sequence of add and remove calls,    *)
(* get_speakers returns at most 2 participants: the (up to) 2 active       *)
(* entries with the smallest requested_at, in ascending order of it.       *)
C1_RosterIsTwoSmallestActive ==
    \A k \in LedgerKeys :
        LET r == get_speakers(state, k)
            A == ActiveUsers(state, k)
        IN  /\ Len(r) <= 2
            /\ Len(r) = Min(2, Cardinality(A))
            /\ \A i \in DOMAIN r : r[i] \in A
            /\ \A i, j \in DOMAIN r : i < j =>
                   /\ r[i] # r[j]
                   /\ Token(state, k, r[i]) <= Token(state, k, r[j])
            /\ \A u \in A : ~ InRoster(r, u) =>
                   \A i \in DOMAIN r : Token(state, k, r[i]) <= Token(state, k, u)

\* three active requests, and the roster is not the first two of the
\* stored mapping: the entry stored first has the largest token
C1_Witness ==
    \E k \in LedgerKeys :
        /\ Cardinality(ActiveUsers(state, k)) = 3
        /\ Len(get_speakers(state, k)) = 2
        /\ ~ InRoster(get_speakers(state, k), Day(state, k)[1].key)

-----------------------------------------------------------------------------
(* C5: add_speaker_request(key, p, token) leaves p active with             *)
(* requested_at equal to the new token, whether p was absent, inactive or  *)
(* already active, and p's place in the roster is decided by the new       *)
(* token: p is behind every active participant with a smaller token and    *)
(* ahead of every active participant with a larger one, whatever token     *)
(* p's earlier request had.                                                *)
C5_AddRequeuesAtNewToken ==
    event.type = "add_speaker_request" =>
        LET k == event.date_key
            p == event.user_id
            t == float(event.event_ts)
            r == get_speakers(state, k)
            A == ActiveUsers(state, k) \ {p}
            smaller == {q \in A : Token(state, k, q) < t}
            larger == {q \in A : Token(state, k, q) > t}
        IN  /\ dict_get(Day(state, k), p) =
                   [active |-> TRUE, requested_at |-> event.event_ts]
            /\ Cardinality(smaller) >= 2 => ~ InRoster(r, p)
            /\ Cardinality(A \ larger) < 2 => InRoster(r, p)
            /\ \A q \in smaller : InRoster(r, p) =>
                   InRoster(r, q) /\ Pos(r, q) < Pos(r, p)
            /\ \A q \in larger : InRoster(r, q) =>
                   InRoster(r, p) /\ Pos(r, p) < Pos(r, q)

\* U1 asked at 9 and withdrew, U2 asked at 10, U1 asks again at 11: the
\* roster has U2 ahead of U1, where the token of U1's first request would
\* have put U1 first
C5_Witness ==
    /\ event.type = "add_speaker_request"
    /\ event.user_id = "U1"
    /\ event.event_ts = <<1, 1>>
    /\ event.previous = << [active |-> FALSE, requested_at |-> <<9>>] >>
    /\ Day(state, event.date_key)[1].key = "U1"
    /\ Previous(state, event.date_key, "U2") =
           << [active |-> TRUE, requested_at |-> <<1, 0>>] >>
    /\ get_speakers(state, event.date_key) = << "U2", "U1" >>

-----------------------------------------------------------------------------
(* C9: when two active requests of one occurrence have equal requested_at, *)
(* get_speakers orders them by the arrival of their latest add and never   *)
(* by their position in the stored mapping: after an add of p, every       *)
(* active participant whose token equals p's is ahead of p.                *)
C9_TieBrokenByArrival ==
    event.type = "add_speaker_request" =>
        LET k == event.date_key
            p == event.user_id
            r == get_speakers(state, k)
            tied == {q \in ActiveUsers(state, k) \ {p} :
                         Token(state, k, q) = float(event.event_ts)}
        IN  \A q \in tied : InRoster(r, p) =>
                InRoster(r, q) /\ Pos(r, q) < Pos(r, p)

-----------------------------------------------------------------------------
(* Reading the worksheet *)

RowsOf(rs, date_key, user_id) ==
    {i \in DOMAIN rs : rs[i].date = date_key /\ rs[i].user_id = user_id}

AttendanceOf(rs, date_key, user_id) ==
    {rs[i].attendance : i \in RowsOf(rs, date_key, user_id)}

-----------------------------------------------------------------------------
(* C4: under any sequence of gateway calls executed one after another the  *)
(* table holds at most one row per (occurrence key, participant id); after *)
(* an upsert_attendance that row holds the status of the call; a call that *)
(* is not an upsert for the pair leaves the pair's status as it is (so the *)
(* row holds the status of the most recent upsert for the pair); and an    *)
(* upsert for a pair that has a row updates it in place, adding no row.    *)
C4_OneRowLatestStatus ==
    /\ [](\A k \in SheetKeys, u \in SheetUsers :
              Cardinality(RowsOf(rows, k, u)) <= 1)
    /\ [](event.type = "upsert_attendance" =>
              AttendanceOf(rows, event.date_key, event.user_id)
                  = {event.attendance})
    /\ [][\A k \in SheetKeys, u \in SheetUsers :
              IF /\ event'.type = "upsert_attendance"
                 /\ event'.date_key = k
                 /\ event'.user_id = u
              THEN RowsOf(rows, k, u) # {} =>
                       /\ Len(rows') = Len(rows)
                       /\ RowsOf(rows', k, u) = RowsOf(rows, k, u)
              ELSE AttendanceOf(rows', k, u) = AttendanceOf(rows, k, u)
        ]_vars

\* a second upsert for (2024/06/03, U1), with the other status, found the
\* row (it carries a topic, which only an existing row gets) and the table
\* still has one row for the pair, next to a row of U1 for the other day
C4_Witness ==
    /\ event.type = "upsert_attendance"
    /\ event.user_id = "U1"
    /\ event.date_key = "2024/06/03"
    /\ event.attendance = "kesseki"
    /\ \E i \in DOMAIN rows :
           /\ RowsOf(rows, "2024/06/03", "U1") = {i}
           /\ rows[i].attendance = "kesseki"
           /\ rows[i].topic = <<"a">>
    /\ AttendanceOf(rows, "2024/06/04", "U1") = {"taimen"}

-----------------------------------------------------------------------------
(* Reading the prompt descriptors *)

\* the occurrence keys whose descriptor is (channel, ts)
KeysOf(st, channel, ts) ==
    {st.declaration_messages[i].key : i \in
        {j \in DOMAIN st.declaration_messages :
            /\ st.declaration_messages[j].value.channel = channel
            /\ st.declaration_messages[j].value.ts = ts}}

Registered(st, channel, ts) == KeysOf(st, channel, ts) # {}

-----------------------------------------------------------------------------
(* C2: a thread reply carrying the topic prefix is honored only if its     *)
(* author is in get_speakers(key) when the reply is handled: in every      *)
(* reachable state, a reply with the prefix whose thread is no registered  *)
(* prompt, or whose author is not in the current top 2 (never asked,       *)
(* withdrew, or pushed out), is handled with no gateway call and no change *)
(* of any kind.                                                            *)
C2_TopicOnlyFromCurrentRoster ==
    \A ev \in AllMessages :
        startswith(ev.text, TOPIC_PREFIX) =>
            LET keys == KeysOf(state, ev.channel, ev.thread_ts)
            IN  (\A k \in keys : ~ InRoster(get_speakers(state, k), ev.user))
                    => on_message_listener(World, ev) = World

\* U1 was in the roster (a topic of U1's is in the table), asked again
\* later and is now behind U2 and U3; U1's reply with another topic has
\* just been handled: no call, the topic in the table is still the old one
C2_Witness ==
    /\ event.type = "message"
    /\ event.user = "U1"
    /\ event.text = TOPIC_PREFIX \o <<"a">>
    /\ \E k \in KeysOf(state, event.channel, event.thread_ts) :
           /\ get_speakers(state, k) = << "U2", "U3" >>
           /\ "U1" \in ActiveUsers(state, k)
           /\ \E i \in RowsOf(rows, k, "U1") : rows[i].topic = <<"b">>
    /\ calls = <<>>

-----------------------------------------------------------------------------
(* C3: a reaction_added or reaction_removed event whose (channel, ts)      *)
(* matches no registered prompt descriptor leaves the descriptors, the     *)
(* ledger, the state file, the name cache and the worksheet unchanged and  *)
(* makes no outbound call, whatever the glyph, the actor and the item.     *)
C3_UnmatchedReactionIgnored ==
    \A ev \in AllReactions, added \in BOOLEAN :
        ~ Registered(state, ev.item.channel, ev.item.ts)
            => _handle_reaction(World, ev, added) = World

\* a reaction in another channel, on the ts of the registered prompt, has
\* just been handled while the ledger and the table were not empty
C3_Witness ==
    /\ event.type = "reaction_added"
    /\ event.item.channel = "C_OTHER"
    /\ Registered(state, target_channel_id, event.item.ts)
    /\ ~ Registered(state, event.item.channel, event.item.ts)
    /\ state.speaker_requests # <<>>
    /\ rows # <<>>
    /\ calls = <<>>

-----------------------------------------------------------------------------
(* C6, as the specification's scenario states it: with U1, U2 and U3       *)
(* asking to speak (roster U1, U2; U3 excluded), U1 removing the speaker   *)
(* glyph from the registered prompt leaves get_speakers = [U2] and the     *)
(* flag push that follows is made with U2 only.                            *)
C6_ScenarioRosterIsU2Only ==
    [][( /\ event'.type = "reaction_removed"
         /\ event'.user = "U1"
         /\ event'.reaction = SPEAKER_EMOJI
         /\ event'.item.type = "message" )
       => \A k \in KeysOf(state, event'.item.channel, event'.item.ts) :
              ( /\ get_speakers(state, k) = << "U1", "U2" >>
                /\ ActiveUsers(state, k) = {"U1", "U2", "U3"} )
              => /\ get_speakers(state', k) = << "U2" >>
                 /\ calls' = << [op |-> "update_speaker_flags",
                                 date_key |-> k,
                                 speaker_user_ids |-> << "U2" >>] >>
      ]_vars

(* C6, amended: in that scenario U1's removal leaves                       *)
(* get_speakers = [U2, U3], U3 moving up into the freed place, and the     *)
(* flag push that follows is made with U2 and U3.                          *)
C6_ScenarioRosterIsU2U3 ==
    [][( /\ event'.type = "reaction_removed"
         /\ event'.user = "U1"
         /\ event'.reaction = SPEAKER_EMOJI
         /\ event'.item.type = "message" )
       => \A k \in KeysOf(state, event'.item.channel, event'.item.ts) :
              ( /\ get_speakers(state, k) = << "U1", "U2" >>
                /\ ActiveUsers(state, k) = {"U1", "U2", "U3"} )
              => /\ get_speakers(state', k) = << "U2", "U3" >>
                 /\ calls' = << [op |-> "update_speaker_flags",
                                 date_key |-> k,
                                 speaker_user_ids |-> << "U2", "U3" >>] >>
      ]_vars

\* U1's removal has just been handled: U1's request is inactive, U2 and U3
\* are the roster, the one call is the push for U2 and U3, and in the table
\* U2's row is flagged and U1's is not
C6_Witness ==
    /\ event.type = "reaction_removed"
    /\ event.user = "U1"
    /\ event.reaction = SPEAKER_EMOJI
    /\ \E k \in KeysOf(state, event.item.channel, event.item.ts) :
           /\ Previous(state, k, "U1") = << [active |-> FALSE,
                                             requested_at |-> <<9>>] >>
           /\ get_speakers(state, k) = << "U2", "U3" >>
           /\ calls = << [op |-> "update_speaker_flags", date_key |-> k,
                          speaker_user_ids |-> << "U2", "U3" >>] >>
           /\ \E i \in RowsOf(rows, k, "U1") : rows[i].speaker = ""
           /\ \E i \in RowsOf(rows, k, "U2") : rows[i].speaker = "o"

-----------------------------------------------------------------------------
(* C8: with the live gateway, a thread reply on a registered prompt that   *)
(* starts with the topic prefix, has a non-empty trimmed remainder and is  *)
(* authored by a participant in the top-2 roster leaves that remainder as  *)
(* the topic of the (occurrence, participant) record, also when the        *)
(* participant has no attendance row yet.  (The handler changes neither    *)
(* the descriptors nor the ledger, so the state after it tells who was in  *)
(* the roster when the reply was handled.)                                 *)
C8_TopicStoredForRosterMember ==
    ( /\ event.type = "message"
      /\ event.subtype = None
      /\ repo = "live"
      /\ startswith(event.text, TOPIC_PREFIX)
      /\ strip(SubSeq(event.text, Len(TOPIC_PREFIX) + 1, Len(event.text))) # <<>> )
    => \A k \in KeysOf(state, event.channel, event.thread_ts) :
           InRoster(get_speakers(state, k), event.user) =>
               \E i \in RowsOf(rows, k, event.user) :
                   rows[i].topic =
                       strip(SubSeq(event.text, Len(TOPIC_PREFIX) + 1,
                                    Len(event.text)))

-----------------------------------------------------------------------------
(* C10: there is at most one prompt descriptor per occurrence key;         *)
(* registering a new prompt for a key replaces the previous one; and       *)
(* afterwards only the newest (channel, ts) of the key resolves, so that   *)
(* reactions and thread replies aimed at a replaced message are ignored    *)
(* with no side effects.  (Under Spec the clock stands still: every prompt *)
(* is today's, and the messages 1 .. last_ts - 1 are the replaced ones.)   *)
C10_OneDescriptorPerKey ==
    LET d == state.declaration_messages
    IN  /\ \A i, j \in DOMAIN d : d[i].key = d[j].key => i = j
        /\ last_ts >= 1 =>
               /\ KeysOf(state, target_channel_id, last_ts) = {_today(now)}
               /\ get_date_by_declaration_message(state, target_channel_id,
                                                  last_ts) = _today(now)
        /\ \A ts \in 1..(last_ts - 1) :
               /\ get_date_by_declaration_message(state, target_channel_id,
                                                  ts) = None
               /\ \A ev \in AllReactions, added \in BOOLEAN :
                      ev.item.ts = ts =>
                          _handle_reaction(World, ev, added) = World
               /\ \A ev \in AllMessages :
                      ev.thread_ts = ts =>
                          _handle_thread_message(World, ev) = World

\* the prompt with ts 1 was replaced by the one with ts 2, and U3's speaker
\* glyph on the replaced message has just been handled: no call, and U3 has
\* no request in the ledger
C10_Witness ==
    /\ last_ts = 2
    /\ state.declaration_messages =
           << [key |-> _today(now),
               value |-> [channel |-> target_channel_id, ts |-> 2]] >>
    /\ event.type = "reaction_added"
    /\ event.user = "U3"
    /\ event.item.channel = target_channel_id
    /\ event.item.ts = 1
    /\ calls = <<>>
    /\ Previous(state, _today(now), "U1") # <<>>
    /\ Previous(state, _today(now), "U3") = <<>>

-----------------------------------------------------------------------------
(* C11: remove_speaker_request(key, p) is a no-op when p has no entry for  *)
(* key or p's entry is already inactive: the whole state document, the set *)
(* of occurrence keys of the ledger included, is the same before and after *)
(* the call.                                                               *)
C11_RemoveOfAbsentOrInactiveIsNoOp ==
    \A date_key \in LedgerKeys, user_id \in Users :
        LET previous == Previous(state, date_key, user_id)
        IN  (IF previous = <<>> THEN TRUE ELSE ~ previous[1].active)
                => remove_speaker_request(state, date_key, user_id) = state

-----------------------------------------------------------------------------
(* C12: constructing LocalState succeeds whether the state file is         *)
(* missing (the state is two empty mappings), present but empty (the same  *)
(* fresh start) or holds a document written by save() (the state is that   *)
(* document: save-then-load is a round trip).                              *)
C12_LoadsFromMissingEmptyOrSaved ==
    LET loaded == LocalState_init(file)
    IN  /\ loaded.raised = None
        /\ file = <<>> => loaded.state = EmptyState
        /\ file = << <<>> >> => loaded.state = EmptyState
        /\ (repo # None /\ file = save(state)) => loaded.state = state

-----------------------------------------------------------------------------
(* C13: every way the external store can be unavailable at startup         *)
(* (credentials not found, malformed or rejected, spreadsheet unreachable  *)
(* or not openable) makes StudyGroupBot select the fallback gateway and    *)
(* keep serving: with valid settings and a state file that loads, startup  *)
(* ends with repo = "noop" and /slack/events answers 200.                  *)
C13_StoreFailureSelectsFallback ==
    LocalState_init(file).raised = None =>
        \A store \in StoreConditions \ {"ok"} :
            LET app == create_flask_app(TRUE, file, store)
            IN  /\ app.repo = "noop"
                /\ slack_events_status(app.repo) = 200

-----------------------------------------------------------------------------
(* C14: a message event runs the posting routine only if it has no         *)
(* subtype, its channel is the target channel and its text, full-width     *)
(* spaces replaced and trimmed, is the literal command; and every such     *)
(* command posts one new prompt and registers it as today's descriptor,    *)
(* whether or not today already has one (so n commands give n prompts).    *)
C14_CommandPostsEveryTime ==
    \A ev \in AllMessages :
        LET w == on_message_listener(World, ev)
            honored == /\ ev.subtype = None
                       /\ ev.channel = target_channel_id
                       /\ strip(replace_fw(ev.text)) = MANUAL_DECLARATION_COMMAND
            posts == {i \in DOMAIN w.calls : w.calls[i].op = "chat_postMessage"}
        IN  /\ ~ honored => /\ posts = {}
                            /\ w.last_ts = last_ts
                            /\ w.state.declaration_messages
                                   = state.declaration_messages
            /\ honored => /\ Cardinality(posts) = 1
                          /\ w.last_ts = last_ts + 1
                          /\ KeysOf(w.state, target_channel_id, last_ts + 1)
                                 = {_today(now)}
                          /\ \A ts \in 1..last_ts :
                                 _today(now) \notin
                                     KeysOf(w.state, target_channel_id, ts)

\* the command has just been honored a second time on the same day: the
\* second prompt is posted and has replaced the first as the descriptor
C14_Witness ==
    /\ event.type = "message"
    /\ event.text = MANUAL_DECLARATION_COMMAND
    /\ event.channel = target_channel_id
    /\ last_ts = 2
    /\ calls = << [op |-> "chat_postMessage", channel |-> target_channel_id] >>
    /\ KeysOf(state, target_channel_id, 2) = {_today(now)}
    /\ KeysOf(state, target_channel_id, 1) = {}

-----------------------------------------------------------------------------
(* C15: with events handled one at a time and every gateway call           *)
(* succeeding, after a speaker-toggle handler (added or removed) and after *)
(* an attendance-added handler on a registered prompt, the last call is    *)
(* update_speaker_flags with get_speakers(key) as it is after the event,   *)
(* and every row of that occurrence is flagged if and only if its          *)
(* participant id is in that roster.                                       *)
C15_FlagsResyncedAfterHandler ==
    ( /\ event.type \in {"reaction_added", "reaction_removed"}
      /\ event.item.type = "message"
      /\ \/ event.reaction = SPEAKER_EMOJI
         \/ /\ event.type = "reaction_added"
            /\ dict_has(ATTENDANCE_EMOJIS, event.reaction) )
    => \A k \in KeysOf(state, event.item.channel, event.item.ts) :
           /\ calls # <<>>
           /\ calls[Len(calls)] =
                  [op |-> "update_speaker_flags", date_key |-> k,
                   speaker_user_ids |-> get_speakers(state, k)]
           /\ \A i \in DOMAIN rows :
                  rows[i].date = k =>
                      (rows[i].speaker = "o"
                         <=> InRoster(get_speakers(state, k), rows[i].user_id))

\* U3's toggle has just been handled after U1's and U2's: the push is made
\* for U1 and U2 only, and in the table the rows of U1 and U2 are flagged
C15_Witness ==
    /\ event.type = "reaction_added"
    /\ event.reaction = SPEAKER_EMOJI
    /\ event.user = "U3"
    /\ \E k \in KeysOf(state, event.item.channel, event.item.ts) :
           /\ ActiveUsers(state, k) = {"U1", "U2", "U3"}
           /\ calls = << [op |-> "update_speaker_flags", date_key |-> k,
                          speaker_user_ids |-> << "U1", "U2" >>] >>
           /\ \E i \in RowsOf(rows, k, "U1") : rows[i].speaker = "o"
           /\ \E i \in RowsOf(rows, k, "U2") : rows[i].speaker = "o"

-----------------------------------------------------------------------------
-----------------------------------------------------------------------------
(* C17: with two handlers of one occurrence running side by side, a state  *)
(* is reachable in which both have finished and the speaker-flag column    *)
(* differs from the current roster (C17_Witness); the column is put right  *)
(* by the next resync of the occurrence: whenever no handler is under way, *)
(* _refresh_speaker_flags run on its own leaves every row of the           *)
(* occurrence flagged if and only if its participant is in the roster.     *)
C17_ResyncRepairsColumn ==
    (\A t \in ThreadIds : threads[t].pc = "idle") =>
        \A k \in KeysOf(state, target_channel_id, last_ts) :
            LET w == _refresh_speaker_flags(World, k)
            IN  \A i \in DOMAIN w.ws.rows :
                    w.ws.rows[i].date = k =>
                        (w.ws.rows[i].speaker = "o"
                           <=> InRoster(get_speakers(state, k),
                                        w.ws.rows[i].user_id))

\* both handlers have finished; U1 has one row, flagged as a speaker, and
\* U1's request is inactive: the roster is empty
C17_Witness ==
    /\ \A t \in ThreadIds : threads[t].pc = "idle"
    /\ \E k \in KeysOf(state, target_channel_id, last_ts) :
           /\ Previous(state, k, "U1") # <<>>
           /\ get_speakers(state, k) = <<>>
           /\ Cardinality(RowsOf(rows, k, "U1")) = 1
           /\ \E i \in RowsOf(rows, k, "U1") : rows[i].speaker = "o"

-----------------------------------------------------------------------------
(* C18: the table holds at most one row per (occurrence key, participant   *)
(* id) in every reachable state, also when two attendance handlers of the  *)
(* same participant and occurrence run side by side.                       *)
C18_OneRowPerParticipantUnderConcurrency ==
    \A k \in KeysOf(state, target_channel_id, last_ts), u \in Users :
        Cardinality(RowsOf(rows, k, u)) <= 1

-----------------------------------------------------------------------------
(* C19: when the flag push fails after a speaker toggle, the handler ends  *)
(* there: the toggle's change of the ledger is kept and is in the state    *)
(* file (no rollback) and no further call is made (no retry); and every    *)
(* resync of the occurrence that then runs to its end leaves each row of   *)
(* the occurrence flagged if and only if its participant is in the roster. *)
C19_FailedPushKeepsLedger ==
    LET th == threads["t1"]
        keys == KeysOf(state, target_channel_id, last_ts)
    IN  /\ (event.type = "fails" /\ th.ev.reaction = SPEAKER_EMOJI) =>
               /\ th.pc = "idle"
               /\ calls = <<>>
               /\ file = save(state)
               /\ \A k \in keys :
                      IF th.ev.type = "reaction_added"
                      THEN Previous(state, k, th.ev.user)
                               = << [active |-> TRUE,
                                     requested_at |-> th.ev.event_ts] >>
                      ELSE \A e \in {Previous(state, k, th.ev.user)} :
                               e = <<>> \/ ~ e[1].active
        /\ (event.type \in {"read_records", "write_flags"} /\ th.pc = "idle") =>
               \A k \in keys : \A i \in DOMAIN rows :
                   rows[i].date = k =>
                       (rows[i].speaker = "o"
                          <=> InRoster(get_speakers(state, k), rows[i].user_id))

\* the push after U1's toggle has just failed: U1 is in the ledger and in
\* the state file as an active request and is the roster, U1's row is not
\* flagged, and the handler has ended
C19_Witness ==
    /\ event.type = "fails"
    /\ threads["t1"].pc = "idle"
    /\ threads["t1"].ev.type = "reaction_added"
    /\ threads["t1"].ev.reaction = SPEAKER_EMOJI
    /\ file = save(state)
    /\ \E k \in KeysOf(state, target_channel_id, last_ts) :
           /\ get_speakers(state, k) = << "U1" >>
           /\ \E i \in RowsOf(rows, k, "U1") : rows[i].speaker = ""

-----------------------------------------------------------------------------
(* C20: on a meeting weekday from 09:00 on, while today has no descriptor, *)
(* every run of the self-healing check attempts a post (and registers the  *)
(* prompt when the send succeeds); a failed send registers nothing; on     *)
(* other weekdays and before 09:00 the check does nothing; and, the check  *)
(* being run fairly and a send succeeding before the day ends, such a day  *)
(* eventually has its descriptor registered.                               *)
C20_CheckEventuallyRegisters ==
    /\ [](LET w == ensure_daily_declaration_posted(World)
          IN  IF weekday(now) \in {0, 2, 4} /\ now.hour >= 9
              THEN NoDescriptorToday =>
                     /\ w.calls = << [op |-> "chat_postMessage",
                                      channel |-> target_channel_id] >>
                     /\ KeysOf(w.state, target_channel_id, w.last_ts)
                            = {_today(now)}
              ELSE w = World)
    /\ [](\A d \in 0..6, h \in 0..23 :
              (d \notin {0, 2, 4} \/ h < 9) =>
                  LET w == [World EXCEPT !.now = [day |-> d, hour |-> h]]
                  IN  ensure_daily_declaration_posted(w) = w)
    /\ [][event'.type = "send_fails" =>
              /\ state' = state
              /\ file' = file
              /\ last_ts' = last_ts]_vars
    /\ (weekday(now) \in {0, 2, 4} /\ now.hour >= 9 /\ NoDescriptorToday)
           ~> (weekday(now) \in {0, 2, 4} /\ ~ NoDescriptorToday)

\* Wednesday at 10:00: the day had no descriptor (the cron job was missed
\* or its send failed), and a run of the check has just posted and
\* registered today's prompt
C20_Witness ==
    /\ event.type = "ensure"
    /\ now = [day |-> 2, hour |-> 10]
    /\ calls = << [op |-> "chat_postMessage", channel |-> target_channel_id] >>
    /\ KeysOf(state, target_channel_id, last_ts) = {_today(now)}

=============================================================================
